---- MODULE Spec2Model ----
(***************************************************************************)
(* Model of ntag215converter.py: the .bin -> .nfc page encoder (convert,   *)
(* assemble_code), the UID-derived password (get_uid, get_pwd,             *)
(* calculate_password) and the .nfc password patcher                       *)
(* (save_ntag215_v2_with_pwd and its helpers).                             *)
(*                                                                         *)
(* Text is modelled character by character: a Python str is a sequence of  *)
(* one-character strings, a bytes object is a sequence of 0..255.          *)
(***************************************************************************)
EXTENDS Integers, Sequences, FiniteSets, TLC

VARIABLES
    pc,           \* position in convert_file / the password harness
    contents,     \* bytes read from the .bin file
    buffer,       \* convert: the page lines (list of str)
    page_count,   \* convert: the running page number, returned as the page count
    i,            \* convert: the loop index over the bytes of the image
    page,         \* convert: the hex strings of the page being filled
    nfc_file,     \* text of the .nfc file on disk (written by write_output, read by the patcher)
    from_encode,  \* TRUE when nfc_file was produced by assemble_code
    lines,        \* save_ntag215_v2_with_pwd: the list returned by readlines(), mutated in place
    uid,          \* bytes of the UID handed to calculate_password
    pwd,          \* list returned by calculate_password
    new_file,     \* text written to new_ntag215_path
    written,      \* TRUE once f_new.writelines(lines) has run
    raised,       \* name of the exception that ended the handler, "" when none
    err_logged,   \* TRUE when calculate_password called logging.error
    uid0,         \* password harness: the UID of the previous call
    pwd0,         \* password harness: the password of the previous call
    chg_pos       \* password harness: zero-based position of the changed byte, -1 when none

vars == <<pc, contents, buffer, page_count, i, page, nfc_file, from_encode, lines, uid, pwd,
          new_file, written, raised, err_logged, uid0, pwd0, chg_pos>>

----------------------------------------------------------------------------
(* Bounds of the model *)

SmallLen == 10      \* short images have 0..SmallLen bytes
Near == 5           \* long images start Near bytes below the 133-page capacity
Excess == 9         \* long images end Excess bytes above the 133-page capacity
MaxLines == 4       \* hand-made .nfc inputs have 0..MaxLines lines
MaxUidLen == 8      \* the password harness calls calculate_password with 0..MaxUidLen bytes

----------------------------------------------------------------------------
(* Characters and bytes *)

SP == " "
NL == "\n"

HexDigitsLower == <<"0","1","2","3","4","5","6","7","8","9","a","b","c","d","e","f">>
HexDigitsUpper == <<"0","1","2","3","4","5","6","7","8","9","A","B","C","D","E","F">>
DecDigits == <<"0","1","2","3","4","5","6","7","8","9">>

\* str.upper() on one character (only a..f occur in lowercase hex output,
\* any other character of the model's alphabet is left alone)
UpperChar(c) ==
    IF \E k \in 11..16 : HexDigitsLower[k] = c
    THEN HexDigitsUpper[CHOOSE k \in 11..16 : HexDigitsLower[k] = c]
    ELSE c

\* str.upper()
Upper(s) == [k \in 1..Len(s) |-> UpperChar(s[k])]

\* bytes.hex() of the slice contents[at : at + 1] (at zero-based): two lowercase
\* digits, or the empty string when at is past the end
SliceHex(bs, at) ==
    IF at < Len(bs)
    THEN <<HexDigitsLower[(bs[at + 1] \div 16) + 1], HexDigitsLower[(bs[at + 1] % 16) + 1]>>
    ELSE <<>>

\* '{:02X}'.format(x) for a byte
Fmt02X(x) == <<HexDigitsUpper[(x \div 16) + 1], HexDigitsUpper[(x % 16) + 1]>>

\* str(n) for n >= 0
RECURSIVE IntToStr(_)
IntToStr(n) ==
    IF n < 10 THEN <<DecDigits[n + 1]>>
    ELSE IntToStr(n \div 10) \o <<DecDigits[(n % 10) + 1]>>

\* sep.join(parts)
RECURSIVE Join(_, _)
Join(sep, parts) ==
    IF Len(parts) = 0 THEN <<>>
    ELSE IF Len(parts) = 1 THEN parts[1]
    ELSE parts[1] \o sep \o Join(sep, Tail(parts))

\* ''.join(parts)
RECURSIVE Concat(_)
Concat(parts) ==
    IF Len(parts) = 0 THEN <<>> ELSE parts[1] \o Concat(Tail(parts))

\* a ^ b on bytes
RECURSIVE Xor(_, _)
Xor(a, b) ==
    IF a = 0 /\ b = 0 THEN 0
    ELSE ((a + b) % 2) + 2 * Xor(a \div 2, b \div 2)

----------------------------------------------------------------------------
(* Password derivation *)

\* calculate_password with the last byte's indices shifted down by one
\* (uid[4] ^ uid[5] in place of uid[4] ^ uid[6])
calculate_password_shifted(u) ==
    IF Len(u) = 7
    THEN << Xor(Xor(u[2], u[4]), 170),
            Xor(Xor(u[3], u[5]), 85),
            Xor(Xor(u[4], u[6]), 170),
            Xor(Xor(u[5], u[6]), 85) >>
    ELSE <<>>

\* calculate_password: the list pwd (empty when the UID is not 7 bytes long)
calculate_password(u) ==
    IF Len(u) = 7
    THEN << Xor(Xor(u[2], u[4]), 170),
            Xor(Xor(u[3], u[5]), 85),
            Xor(Xor(u[4], u[6]), 170),
            Xor(Xor(u[5], u[7]), 85) >>
    ELSE <<>>

\* calculate_password: whether the else branch ran logging.error
password_error_logged(u) == Len(u) # 7

IsSpace(c) == c = SP \/ c = NL
IsHexDigit(c) == \E k \in 1..16 : HexDigitsLower[k] = c \/ HexDigitsUpper[k] = c
HexValue(c) ==
    IF \E k \in 1..16 : HexDigitsUpper[k] = c
    THEN (CHOOSE k \in 1..16 : HexDigitsUpper[k] = c) - 1
    ELSE (CHOOSE k \in 1..16 : HexDigitsLower[k] = c) - 1

\* bytes.fromhex / bytearray.fromhex: whitespace between bytes is skipped, every
\* byte is two adjacent hex digits, anything else raises ValueError
RECURSIVE FromHexAt(_, _, _)
FromHexAt(s, at, acc) ==
    IF at > Len(s) THEN [ok |-> TRUE, val |-> acc]
    ELSE IF IsSpace(s[at]) THEN FromHexAt(s, at + 1, acc)
    ELSE IF at + 1 <= Len(s) /\ IsHexDigit(s[at]) /\ IsHexDigit(s[at + 1])
         THEN FromHexAt(s, at + 2, Append(acc, 16 * HexValue(s[at]) + HexValue(s[at + 1])))
    ELSE [ok |-> FALSE, val |-> <<>>]

fromhex(s) == FromHexAt(s, 1, <<>>)

\* get_uid taking the first 7 bytes, byte 3 not skipped
get_uid_noskip(bs) ==
    Upper(Join(<<SP>>, [k \in 1..7 |-> SliceHex(bs, k - 1)]))

\* get_uid: bytes 0..2 and 4..7 of the image as hex, joined by spaces, uppercased;
\* a position past the end of the image contributes an empty string
get_uid(bs) ==
    Upper(Join(<<SP>>, [k \in 1..7 |-> SliceHex(bs, IF k <= 3 THEN k - 1 ELSE k)]))

\* get_pwd: the UID bytes parsed back from get_uid's text
get_pwd_uid(bs) == fromhex(get_uid(bs)).val

\* get_pwd
get_pwd(bs) == calculate_password(get_pwd_uid(bs))

----------------------------------------------------------------------------
(* Text files *)

\* sep.join(parts[lo..hi]), by halving the range
RECURSIVE JoinRange(_, _, _, _)
JoinRange(sep, parts, lo, hi) ==
    IF lo > hi THEN <<>>
    ELSE IF lo = hi THEN parts[lo]
    ELSE JoinRange(sep, parts, lo, (lo + hi) \div 2) \o sep
            \o JoinRange(sep, parts, ((lo + hi) \div 2) + 1, hi)

\* "\n".join(buffer)
JoinLines(buf) == JoinRange(<<NL>>, buf, 1, Len(buf))

\* f.writelines(lines): the lines are written one after the other, nothing added
writelines(ls) == JoinRange(<<>>, ls, 1, Len(ls))

\* file.readlines() on text[lo..hi], by halving the range: a line ends after its
\* newline, the last line may have none
RECURSIVE SplitRange(_, _, _)
SplitRange(text, lo, hi) ==
    IF lo = hi THEN << <<text[lo]>> >>
    ELSE LET left == SplitRange(text, lo, (lo + hi) \div 2)
             right == SplitRange(text, ((lo + hi) \div 2) + 1, hi)
         IN  IF text[(lo + hi) \div 2] = NL
             THEN left \o right
             ELSE SubSeq(left, 1, Len(left) - 1)
                    \o << left[Len(left)] \o right[1] >>
                    \o Tail(right)

\* file.readlines()
readlines(text) == IF Len(text) = 0 THEN <<>> ELSE SplitRange(text, 1, Len(text))

----------------------------------------------------------------------------
(* Page encoder *)

PageWord == <<"P","a","g","e"," ">>

\* f"Page {page_count}: {' '.join(page).upper()}"
PageLine(n, pg) == PageWord \o IntToStr(n) \o <<":", SP>> \o Upper(Join(<<SP>>, pg))

\* f"Page {page_count}: 00 00 00 00"
ZeroPageLine(n) ==
    PageWord \o IntToStr(n) \o <<":"," ","0","0"," ","0","0"," ","0","0"," ","0","0">>

\* f"Page {page_count}: {pwd_hex}" with pwd_hex the '{:02X}' bytes joined by spaces
PwdPageLine(n, pw) ==
    PageWord \o IntToStr(n) \o <<":", SP>> \o Join(<<SP>>, [k \in 1..Len(pw) |-> Fmt02X(pw[k])])

\* f"Page {page_count}: 80 80 00 00"
PackPageLine(n) ==
    PageWord \o IntToStr(n) \o <<":"," ","8","0"," ","8","0"," ","0","0"," ","0","0">>

\* the page cap one page late
EnoughPages_late(cnt) == cnt > 133

\* convert, line 51: "if page_count > 132"
EnoughPages(cnt) == cnt > 132

\* the padding loop starting one step late, "range(len(page), 3)"
RECURSIVE PadRange_short(_, _)
PadRange_short(pg, k) ==
    IF k + 1 >= 3 THEN pg ELSE PadRange_short(Append(pg, <<"0","0">>), k + 1)

\* the padding loop "for i in range(len(page) - 1, 3): page.append('00')"
RECURSIVE PadRange(_, _)
PadRange(pg, k) ==
    IF k >= 3 THEN pg ELSE PadRange(Append(pg, <<"0","0">>), k + 1)

TemplateHead == <<
    "F","i","l","e","t","y","p","e",":"," ","F","l","i","p","p","e","r"," ","N","F","C"," ","d","e",
    "v","i","c","e","\n","V","e","r","s","i","o","n",":"," ","2","\n","#"," ","N","f","c"," ","d","e",
    "v","i","c","e"," ","t","y","p","e"," ","c","a","n"," ","b","e"," ","U","I","D",","," ","M","i",
    "f","a","r","e"," ","U","l","t","r","a","l","i","g","h","t",","," ","B","a","n","k"," ","c","a",
    "r","d","\n","D","e","v","i","c","e"," ","t","y","p","e",":"," ","N","T","A","G","2","1","5","\n",
    "#"," ","U","I","D",","," ","A","T","Q","A"," ","a","n","d"," ","S","A","K"," ","a","r","e"," ",
    "c","o","m","m","o","n"," ","f","o","r"," ","a","l","l"," ","f","o","r","m","a","t","s","\n","U",
    "I","D",":"," " >>

TemplateMid == <<
    "\n","A","T","Q","A",":"," ","4","4"," ","0","0","\n","S","A","K",":"," ","0","0","\n","#"," ","M",
    "i","f","a","r","e"," ","U","l","t","r","a","l","i","g","h","t"," ","s","p","e","c","i","f","i",
    "c"," ","d","a","t","a","\n","S","i","g","n","a","t","u","r","e",":"," ","0","0"," ","0","0"," ",
    "0","0"," ","0","0"," ","0","0"," ","0","0"," ","0","0"," ","0","0"," ","0","0"," ","0","0"," ",
    "0","0"," ","0","0"," ","0","0"," ","0","0"," ","0","0"," ","0","0"," ","0","0"," ","0","0"," ",
    "0","0"," ","0","0"," ","0","0"," ","0","0"," ","0","0"," ","0","0"," ","0","0"," ","0","0"," ",
    "0","0"," ","0","0"," ","0","0"," ","0","0"," ","0","0"," ","0","0","\n","M","i","f","a","r","e",
    " ","v","e","r","s","i","o","n",":"," ","0","0"," ","0","4"," ","0","4"," ","0","2"," ","0","1",
    " ","0","0"," ","1","1"," ","0","3","\n","C","o","u","n","t","e","r"," ","0",":"," ","0","\n","T",
    "e","a","r","i","n","g"," ","0",":"," ","0","0","\n","C","o","u","n","t","e","r"," ","1",":"," ",
    "0","\n","T","e","a","r","i","n","g"," ","1",":"," ","0","0","\n","C","o","u","n","t","e","r"," ",
    "2",":"," ","0","\n","T","e","a","r","i","n","g"," ","2",":"," ","0","0","\n","P","a","g","e","s",
    " ","t","o","t","a","l",":"," " >>


\* assemble_code: the f-string around the conversion
assemble_code(bs, conversion, cnt) ==
    TemplateHead \o get_uid(bs) \o TemplateMid \o IntToStr(cnt)
        \o <<NL>> \o conversion \o <<NL>>

----------------------------------------------------------------------------
(* Password patcher *)

\* "sub_str in s"
Contains(sub, s) ==
    \E k \in 0..(Len(s) - Len(sub)) : SubSeq(s, k + 1, k + Len(sub)) = sub

\* get_string_containing: match[0], IndexError when nothing matches
get_string_containing(ls, sub) ==
    LET match == SelectSeq(ls, LAMBDA s : Contains(sub, s))
    IN  IF Len(match) = 0
        THEN [ok |-> FALSE, val |-> <<>>]
        ELSE [ok |-> TRUE, val |-> match[1]]

UidPrefix == <<"U","I","D",":">>
Page133Prefix == <<"P","a","g","e"," ","1","3","3",":">>
Page134Prefix == <<"P","a","g","e"," ","1","3","4",":">>

\* get_uid_string
get_uid_string(ls) == get_string_containing(ls, UidPrefix)

\* str.removeprefix
removeprefix(s, p) ==
    IF Len(s) >= Len(p) /\ SubSeq(s, 1, Len(p)) = p
    THEN SubSeq(s, Len(p) + 1, Len(s))
    ELSE s

\* str.removesuffix
removesuffix(s, p) ==
    IF Len(s) >= Len(p) /\ SubSeq(s, Len(s) - Len(p) + 1, Len(s)) = p
    THEN SubSeq(s, 1, Len(s) - Len(p))
    ELSE s

\* str.strip()
strip(s) ==
    LET keep == { k \in 1..Len(s) : ~IsSpace(s[k]) }
    IN  IF keep = {} THEN <<>>
        ELSE SubSeq(s, CHOOSE k \in keep : \A m \in keep : k <= m,
                       CHOOSE k \in keep : \A m \in keep : k >= m)

\* get_uid_bytes: ValueError (ok = FALSE) when the text is not hex
get_uid_bytes(uid_str) ==
    fromhex(removesuffix(strip(removeprefix(uid_str, UidPrefix)), <<NL>>))

\* format_new_page with lowercase hex, ' {:02x}'
format_new_page_lower(suffix, data) ==
    suffix \o Concat([k \in 1..Len(data) |->
                        <<SP, HexDigitsLower[(data[k] \div 16) + 1],
                              HexDigitsLower[(data[k] % 16) + 1]>>]) \o <<NL>>

\* format_new_page
format_new_page(suffix, data) ==
    suffix \o Concat([k \in 1..Len(data) |-> <<SP>> \o Fmt02X(data[k])]) \o <<NL>>

\* list.index(x): the zero-based position of the first element equal to x
ListIndex(ls, x) == (CHOOSE k \in 1..Len(ls) : ls[k] = x /\ \A m \in 1..(k - 1) : ls[m] # x) - 1

\* list.pop(k), the list afterwards
ListPop(ls, k) == SubSeq(ls, 1, k) \o SubSeq(ls, k + 2, Len(ls))

\* list.insert(k, x), the list afterwards
ListInsert(ls, k, x) == SubSeq(ls, 1, k) \o <<x>> \o SubSeq(ls, k + 1, Len(ls))

\* replace_page_data appending the new line at the end, lines.append(str)
replace_page_data_append(ls, page_prefix, data) ==
    LET str == get_string_containing(ls, page_prefix)
    IN  IF ~str.ok
        THEN [ok |-> FALSE, val |-> ls]
        ELSE [ok |-> TRUE,
              val |-> Append(ListPop(ls, ListIndex(ls, str.val)),
                             format_new_page(page_prefix, data))]

\* replace_page_data leaving the list alone when no line matches
replace_page_data_skip(ls, page_prefix, data) ==
    LET str == get_string_containing(ls, page_prefix)
    IN  IF ~str.ok
        THEN [ok |-> TRUE, val |-> ls]
        ELSE [ok |-> TRUE,
              val |-> ListInsert(ListPop(ls, ListIndex(ls, str.val)),
                                 ListIndex(ls, str.val),
                                 format_new_page(page_prefix, data))]

\* replace_page_data: the list afterwards, IndexError (ok = FALSE) when no line matches
replace_page_data(ls, page_prefix, data) ==
    LET str == get_string_containing(ls, page_prefix)
    IN  IF ~str.ok
        THEN [ok |-> FALSE, val |-> ls]
        ELSE [ok |-> TRUE,
              val |-> ListInsert(ListPop(ls, ListIndex(ls, str.val)),
                                 ListIndex(ls, str.val),
                                 format_new_page(page_prefix, data))]

\* save_pwd_to_page
save_pwd_to_page(ls, pw) == replace_page_data(ls, Page133Prefix, pw)

\* save_pack_to_page
save_pack_to_page(ls, pack) == replace_page_data(ls, Page134Prefix, <<pack[1], pack[2], 0, 0>>)

----------------------------------------------------------------------------
(* Inputs *)

\* the bytes that fit the 133 content pages
Capacity == 4 * 133

\* the byte patterns of the sample images: byte k is (seed + step * k) mod 256
Patterns == { <<0, 0>>, <<7, 3>>, <<222, 17>> }

Image(len, p) == [k \in 1..len |-> (p[1] + p[2] * (k - 1)) % 256]

ImageLens == (0..SmallLen) \cup ((Capacity - Near)..(Capacity + Excess))

Images == { Image(len, p) : len \in ImageLens, p \in Patterns }

\* the lines hand-made .nfc files are built from
LinePool == <<
    <<"U","I","D",":"," ","D","E"," ","A","D"," ","B","E"," ","E","F"," ","0","1"," ","0","2"," ","0","3","\n">>,
    <<"U","I","D",":"," ","0","1"," ","0","2"," ","0","3","\n">>,
    <<"U","I","D",":"," ","Z","Z","\n">>,
    <<"P","a","g","e"," ","1","3","3",":"," ","0","0"," ","0","0"," ","0","0"," ","0","0","\n">>,
    <<"P","a","g","e"," ","1","3","4",":"," ","0","0"," ","0","0"," ","0","0"," ","0","0","\n">>,
    <<"P","a","g","e"," ","1","3","3",":"," ","P","a","g","e"," ","1","3","4",":","\n">>,
    <<"A","T","Q","A",":"," ","4","4"," ","0","0","\n">> >>

\* the choices of 0..MaxLines lines of the pool, in any order, repeats allowed
LineChoices == UNION { [1..n -> 1..Len(LinePool)] : n \in 0..MaxLines }

NfcInputs == { writelines([k \in DOMAIN f |-> LinePool[f[k]]]) : f \in LineChoices }

\* the byte values the sample UIDs are made of
ByteSamples == {0, 90, 255}

\* the UIDs calculate_password is called with directly
UidSamples == UNION { [1..n -> ByteSamples] : n \in 0..MaxUidLen }

----------------------------------------------------------------------------
(* convert_file *)

Idle ==
    /\ buffer = <<>>
    /\ page_count = 0
    /\ i = 0
    /\ page = <<>>
    /\ from_encode = FALSE
    /\ lines = <<>>
    /\ uid = <<>>
    /\ pwd = <<>>
    /\ new_file = <<>>
    /\ written = FALSE
    /\ raised = ""
    /\ err_logged = FALSE
    /\ uid0 = <<>>
    /\ pwd0 = <<>>
    /\ chg_pos = -1

\* convert_file is given a .bin file (its bytes are read) or a .nfc file
InitFile ==
    /\ \/ pc = "loop" /\ contents \in Images /\ nfc_file = <<>>
       \/ pc = "nfc" /\ contents = <<>> /\ nfc_file \in NfcInputs
    /\ Idle

\* calculate_password is about to be called with a sample UID
InitPassword ==
    /\ pc = "pwd_call"
    /\ contents = <<>>
    /\ nfc_file = <<>>
    /\ buffer = <<>>
    /\ page_count = 0
    /\ i = 0
    /\ page = <<>>
    /\ from_encode = FALSE
    /\ lines = <<>>
    /\ uid \in UidSamples
    /\ pwd = <<>>
    /\ new_file = <<>>
    /\ written = FALSE
    /\ raised = ""
    /\ err_logged = FALSE
    /\ uid0 = <<>>
    /\ pwd0 = <<>>
    /\ chg_pos = -1

Init == InitFile \/ InitPassword

\* convert, lines 50-61: one iteration of the loop over the bytes
LoopStep ==
    /\ pc = "loop"
    /\ i < Len(contents)
    /\ ~EnoughPages(page_count)
    /\ LET page2 == Append(page, SliceHex(contents, i))
       IN  IF Len(page2) = 4
           THEN /\ buffer' = Append(buffer, PageLine(page_count, page2))
                /\ page' = <<>>
                /\ page_count' = page_count + 1
           ELSE /\ page' = page2
                /\ UNCHANGED <<buffer, page_count>>
    /\ i' = i + 1
    /\ UNCHANGED <<pc, contents, nfc_file, from_encode, lines, uid, pwd, new_file, written,
                   raised, err_logged, uid0, pwd0, chg_pos>>

\* convert, lines 51-53: enough pages, the loop breaks
LoopBreak ==
    /\ pc = "loop"
    /\ i < Len(contents)
    /\ EnoughPages(page_count)
    /\ pc' = "pad"
    /\ UNCHANGED <<contents, buffer, page_count, i, page, nfc_file, from_encode, lines, uid, pwd,
                   new_file, written, raised, err_logged, uid0, pwd0, chg_pos>>

\* convert, line 50: the image is exhausted
LoopEnd ==
    /\ pc = "loop"
    /\ i >= Len(contents)
    /\ pc' = "pad"
    /\ UNCHANGED <<contents, buffer, page_count, i, page, nfc_file, from_encode, lines, uid, pwd,
                   new_file, written, raised, err_logged, uid0, pwd0, chg_pos>>

\* convert, lines 64-70: an unfilled final page is padded with "00" and flushed
PadPage ==
    /\ pc = "pad"
    /\ IF Len(page) > 0
       THEN /\ page' = PadRange(page, Len(page) - 1)
            /\ buffer' = Append(buffer, PageLine(page_count, page'))
            /\ page_count' = page_count + 1
       ELSE UNCHANGED <<page, buffer, page_count>>
    /\ pc' = "fill"
    /\ UNCHANGED <<contents, i, nfc_file, from_encode, lines, uid, pwd, new_file, written,
                   raised, err_logged, uid0, pwd0, chg_pos>>

\* convert, lines 73-77: one zero page is appended while pages are missing
FillStep ==
    /\ pc = "fill"
    /\ page_count < 133
    /\ buffer' = Append(buffer, ZeroPageLine(page_count))
    /\ page_count' = page_count + 1
    /\ UNCHANGED <<pc, contents, i, page, nfc_file, from_encode, lines, uid, pwd, new_file,
                   written, raised, err_logged, uid0, pwd0, chg_pos>>

\* convert, lines 80-88: page 133 (PWD) and page 134 (PACK + RFUI), then the return
AuthPages ==
    /\ pc = "fill"
    /\ ~(page_count < 133)
    /\ uid' = get_pwd_uid(contents)
    /\ pwd' = get_pwd(contents)
    /\ err_logged' = password_error_logged(get_pwd_uid(contents))
    /\ buffer' = Append(Append(buffer, PwdPageLine(page_count, pwd')),
                        PackPageLine(page_count + 1))
    /\ page_count' = page_count + 2
    /\ pc' = "converted"
    /\ UNCHANGED <<contents, i, page, nfc_file, from_encode, lines, new_file, written,
                   raised, uid0, pwd0, chg_pos>>

\* assemble_code and write_output: the text is written to <name>.nfc, which
\* convert_file accepts as an input in turn
WriteOutput ==
    /\ pc = "converted"
    /\ nfc_file' = assemble_code(contents, JoinLines(buffer), page_count)
    /\ from_encode' = TRUE
    /\ pc' = "nfc"
    /\ UNCHANGED <<contents, buffer, page_count, i, page, lines, uid, pwd, new_file, written,
                   raised, err_logged, uid0, pwd0, chg_pos>>

\* save_ntag215_v2_with_pwd: an exception leaves new_ntag215_path unwritten
SaveWithPwd ==
    /\ pc = "nfc"
    /\ LET ls0 == readlines(nfc_file)
           us == get_uid_string(ls0)
           ub == get_uid_bytes(us.val)
           pw == calculate_password(ub.val)
           r1 == save_pwd_to_page(ls0, pw)
           r2 == save_pack_to_page(r1.val, <<128, 128>>)
       IN  IF ~us.ok
           THEN /\ raised' = "IndexError"
                /\ lines' = ls0
                /\ UNCHANGED <<uid, pwd, err_logged, new_file, written>>
           ELSE IF ~ub.ok
           THEN /\ raised' = "ValueError"
                /\ lines' = ls0
                /\ UNCHANGED <<uid, pwd, err_logged, new_file, written>>
           ELSE /\ uid' = ub.val
                /\ pwd' = pw
                /\ err_logged' = password_error_logged(ub.val)
                /\ IF ~r1.ok
                   THEN /\ raised' = "IndexError"
                        /\ lines' = ls0
                        /\ UNCHANGED <<new_file, written>>
                   ELSE IF ~r2.ok
                   THEN /\ raised' = "IndexError"
                        /\ lines' = r1.val
                        /\ UNCHANGED <<new_file, written>>
                   ELSE /\ lines' = r2.val
                        /\ new_file' = writelines(r2.val)
                        /\ written' = TRUE
                        /\ UNCHANGED raised
    /\ pc' = "done"
    /\ UNCHANGED <<contents, buffer, page_count, i, page, nfc_file, from_encode, uid0, pwd0, chg_pos>>

\* calculate_password(uid) is called and returns
CallPassword ==
    /\ pc = "pwd_call"
    /\ pwd' = calculate_password(uid)
    /\ err_logged' = password_error_logged(uid)
    /\ pc' = "pwd_done"
    /\ UNCHANGED <<contents, buffer, page_count, i, page, nfc_file, from_encode, lines, uid,
                   new_file, written, raised, uid0, pwd0, chg_pos>>

\* calculate_password is called again on the UID with the byte at one position
\* replaced by a sample value; the previous call is kept in uid0, pwd0
CallPasswordAgain ==
    /\ pc = "pwd_done"
    /\ \E p \in 1..Len(uid), v \in ByteSamples :
          /\ uid' = [uid EXCEPT ![p] = v]
          /\ chg_pos' = p - 1
    /\ uid0' = uid
    /\ pwd0' = pwd
    /\ pwd' = calculate_password(uid')
    /\ err_logged' = password_error_logged(uid')
    /\ pc' = "pwd_again"
    /\ UNCHANGED <<contents, buffer, page_count, i, page, nfc_file, from_encode, lines,
                   new_file, written, raised>>

Next ==
    \/ CallPassword
    \/ CallPasswordAgain
    \/ LoopStep
    \/ LoopBreak
    \/ LoopEnd
    \/ PadPage
    \/ FillStep
    \/ AuthPages
    \/ WriteOutput
    \/ SaveWithPwd

Spec == Init /\ [][Next]_vars

----------------------------------------------------------------------------
(* Reading text back, for the properties: these definitions decode what    *)
(* the program wrote and share nothing with its formatting code.           *)

UpperHexChars == {"0","1","2","3","4","5","6","7","8","9","A","B","C","D","E","F"}
DecChars == {"0","1","2","3","4","5","6","7","8","9"}

DigitOf(c) ==
    CASE c = "0" -> 0 [] c = "1" -> 1 [] c = "2" -> 2 [] c = "3" -> 3
      [] c = "4" -> 4 [] c = "5" -> 5 [] c = "6" -> 6 [] c = "7" -> 7
      [] c = "8" -> 8 [] c = "9" -> 9 [] c = "A" -> 10 [] c = "B" -> 11
      [] c = "C" -> 12 [] c = "D" -> 13 [] c = "E" -> 14 [] c = "F" -> 15

RECURSIVE DecimalOf(_)
DecimalOf(ds) ==
    IF Len(ds) = 0 THEN 0
    ELSE 10 * DecimalOf(SubSeq(ds, 1, Len(ds) - 1)) + DigitOf(ds[Len(ds)])

StartsWith(s, p) == Len(s) >= Len(p) /\ SubSeq(s, 1, Len(p)) = p

Occurs(sub, s) == \E k \in 1..(Len(s) - Len(sub) + 1) : \A m \in 1..Len(sub) : s[k + m - 1] = sub[m]

\* the text is "XX XX .. XX": the bytes bs as two uppercase hex digits each,
\* single spaces between them
IsHexText(text, bs) ==
    /\ Len(text) = (IF Len(bs) = 0 THEN 0 ELSE 3 * Len(bs) - 1)
    /\ \A k \in 1..Len(bs) :
          /\ text[3 * k - 2] \in UpperHexChars
          /\ text[3 * k - 1] \in UpperHexChars
          /\ 16 * DigitOf(text[3 * k - 2]) + DigitOf(text[3 * k - 1]) = bs[k]
          /\ k < Len(bs) => text[3 * k] = " "

\* the line is "Page <n>: " followed by the bytes bs as hex text
IsPageLine(ln, n, bs) ==
    \E c \in 7..Len(ln) :
        /\ SubSeq(ln, 1, 5) = <<"P","a","g","e"," ">>
        /\ \A m \in 6..(c - 1) : ln[m] \in DecChars
        /\ ln[6] # "0" \/ c = 7
        /\ DecimalOf(SubSeq(ln, 6, c - 1)) = n
        /\ ln[c] = ":"
        /\ c + 1 <= Len(ln)
        /\ ln[c + 1] = " "
        /\ IsHexText(SubSeq(ln, c + 2, Len(ln)), bs)

\* the line starts with "Page <n>:"
HasPageNumber(ln, n) ==
    \E c \in 7..Len(ln) :
        /\ SubSeq(ln, 1, 5) = <<"P","a","g","e"," ">>
        /\ \A m \in 6..(c - 1) : ln[m] \in DecChars
        /\ DecimalOf(SubSeq(ln, 6, c - 1)) = n
        /\ ln[c] = ":"

\* bit k of a byte, and the XOR of three bytes bit by bit
BitOf(x, k) == (x \div (2 ^ k)) % 2
Xor3(a, b, c) ==
    LET bit(k) == (BitOf(a, k) + BitOf(b, k) + BitOf(c, k)) % 2
    IN  bit(0) + 2 * bit(1) + 4 * bit(2) + 8 * bit(3)
          + 16 * bit(4) + 32 * bit(5) + 64 * bit(6) + 128 * bit(7)

\* the password of section 4.2 for a 7-byte UID u (u[1] is byte 0)
FormulaPassword(u) ==
    << Xor3(u[2], u[4], 170), Xor3(u[3], u[5], 85), Xor3(u[4], u[6], 170), Xor3(u[5], u[7], 85) >>

\* byte k (zero-based) of the image, 0 at or past its end
ByteOrZero(bs, k) == IF k < Len(bs) THEN bs[k + 1] ELSE 0

\* convert has returned (its result is in buffer, page_count)
Converted == pc = "converted" \/ from_encode

\* the patcher has ended, with the file written or with an exception
Patched == pc = "done"

\* the lines of the .nfc file the patcher read
InputLines == readlines(nfc_file)

\* position of the first line of ls containing sub, 0 when there is none
FirstWith(ls, sub) ==
    IF \E k \in 1..Len(ls) : Occurs(sub, ls[k])
    THEN CHOOSE k \in 1..Len(ls) : Occurs(sub, ls[k]) /\ \A m \in 1..(k - 1) : ~Occurs(sub, ls[m])
    ELSE 0

\* position of the first line of ls containing sub, position skip left out; 0 when none
FirstWithExcept(ls, sub, skip) ==
    IF \E k \in 1..Len(ls) : k # skip /\ Occurs(sub, ls[k])
    THEN CHOOSE k \in 1..Len(ls) :
            /\ k # skip /\ Occurs(sub, ls[k])
            /\ \A m \in 1..(k - 1) : m = skip \/ ~Occurs(sub, ls[m])
    ELSE 0

UidMark == <<"U","I","D",":">>
Page133Mark == <<"P","a","g","e"," ","1","3","3",":">>
Page134Mark == <<"P","a","g","e"," ","1","3","4",":">>
PagesTotal135 == <<"P","a","g","e","s"," ","t","o","t","a","l",":"," ","1","3","5","\n">>
PackLine == <<"P","a","g","e"," ","1","3","4",":"," ","8","0"," ","8","0"," ","0","0"," ","0","0","\n">>
SampleUidLine == <<"U","I","D",":"," ","D","E"," ","A","D"," ","B","E"," ","E","F"," ","0","1"," ","0","2"," ","0","3","\n">>

\* the first line containing "UID:" of the file the patcher read, <<>> when none
UidField ==
    LET il == InputLines
    IN  IF FirstWith(il, UidMark) > 0 THEN il[FirstWith(il, UidMark)] ELSE <<>>

----------------------------------------------------------------------------
(* Properties *)

\* C1: for every image of at least 8 bytes (also above 540), convert returns
\* exactly 135 page lines numbered 0..134 in order, the returned page count is
\* 135, and the written file says "Pages total: 135" and holds those 135 lines.
C1_PageCount ==
    (Converted /\ Len(contents) >= 8) =>
        /\ Len(buffer) = 135
        /\ page_count = 135
        /\ page_count = Len(buffer)
        /\ \A k \in 0..134 : HasPageNumber(buffer[k + 1], k)
        /\ from_encode =>
              LET fl == InputLines
                  pl == SelectSeq(fl, LAMBDA ln : StartsWith(ln, <<"P","a","g","e"," ">>))
                  tl == SelectSeq(fl, LAMBDA ln : StartsWith(ln, <<"P","a","g","e","s">>))
              IN  /\ tl = << PagesTotal135 >>
                  /\ pl = [k \in 1..135 |-> buffer[k] \o <<"\n">>]

C1_Witness ==
    /\ pc = "done"
    /\ from_encode
    /\ Len(contents) > 540
    /\ Len(buffer) = 135

\* C2: for every image and every k in 0..132, page line k holds the bytes
\* image[4k..4k+3] as two-digit uppercase hex, every position at or past the
\* end of the image rendered as 00.
C2_PageContent ==
    Converted =>
        /\ Len(buffer) >= 133
        /\ \A k \in 0..132 :
              IsPageLine(buffer[k + 1], k,
                         [j \in 1..4 |-> ByteOrZero(contents, 4 * k + j - 1)])

C2_Witness ==
    /\ pc = "converted"
    /\ Len(contents) % 4 = 1
    /\ Len(contents) > 4
    /\ contents[Len(contents)] # 0

\* C3: for every 7-byte UID, calculate_password returns the 4 bytes of the
\* formula; for every image of at least 8 bytes, page 133 written by convert
\* is that password for the UID made of image bytes 0,1,2,4,5,6,7.
C3_Password ==
    /\ (pc \in {"pwd_done", "pwd_again", "converted", "nfc", "done"} /\ Len(uid) = 7) =>
          pwd = FormulaPassword(uid)
    /\ (Converted /\ Len(contents) >= 8) =>
          /\ Len(buffer) >= 134
          /\ IsPageLine(buffer[134], 133,
                        FormulaPassword(<<contents[1], contents[2], contents[3], contents[5],
                                          contents[6], contents[7], contents[8]>>))

C3_Witness ==
    /\ pc = "converted"
    /\ Len(contents) >= 8
    /\ contents[4] # contents[8]
    /\ Len(uid) = 7
    /\ Len(pwd) = 4

\* C4 (as claimed): a UID of a length other than 7 is a hard error:
\* calculate_password ends in an error outcome, and the patch of a document
\* whose UID field has another byte count fails instead of writing a file.
C4_HardError ==
    /\ (pc \in {"pwd_done", "pwd_again"} /\ Len(uid) # 7) => raised # ""
    /\ Patched =>
          LET il == InputLines
              field == IF FirstWith(il, UidMark) > 0 THEN il[FirstWith(il, UidMark)] ELSE <<>>
          IN  (/\ FirstWith(il, UidMark) > 0
               /\ get_uid_bytes(field).ok
               /\ Len(get_uid_bytes(field).val) # 7) =>
                  (raised # "" /\ ~written)

\* C5 (as claimed): replacing the byte at any position 0..6 of a 7-byte UID by
\* a different value changes the password.
C5_AnyByte ==
    (pc = "pwd_again" /\ Len(uid) = 7 /\ uid # uid0) => pwd # pwd0

\* C5 (amended): replacing the byte at a position 1..6 of a 7-byte UID by a
\* different value changes the password; an unchanged UID gives the same password.
C5_UsedBytes ==
    /\ (pc = "pwd_again" /\ Len(uid) = 7 /\ uid # uid0 /\ chg_pos \in 1..6) => pwd # pwd0
    /\ (pc = "pwd_again" /\ uid = uid0) => pwd = pwd0

C5_Witness ==
    /\ pc = "pwd_again"
    /\ Len(uid) = 7
    /\ chg_pos = 6
    /\ uid # uid0
    /\ Len(pwd) = 4

\* C6 (as claimed): patching the document assemble_code wrote for any image
\* yields Page 133 and Page 134 lines identical to the encoded ones.
C6_RoundTrip ==
    (Patched /\ from_encode) =>
        LET il == InputLines
        IN  /\ written
            /\ Len(lines) = Len(il)
            /\ lines[FirstWith(il, Page133Mark)] = il[FirstWith(il, Page133Mark)]
            /\ lines[FirstWith(il, Page134Mark)] = il[FirstWith(il, Page134Mark)]

\* C7 (as claimed): with the UID line "UID: DE AD BE EF 01 02 03" the patch
\* writes the password bytes 61 FB 02 56 to the Page 133 line.
C7_SpecExample ==
    (Patched /\ written /\ UidField = SampleUidLine) =>
        /\ IsPageLine(SubSeq(lines[FirstWith(lines, Page133Mark)], 1,
                             Len(lines[FirstWith(lines, Page133Mark)]) - 1),
                      133, <<97, 251, 2, 86>>)
        /\ lines[FirstWith(lines, Page134Mark)] = PackLine

\* C7 (amended): with the UID line "UID: DE AD BE EF 01 02 03" the patch
\* writes the password bytes E8 EA 47 57 to the Page 133 line and 80 80 00 00
\* to the Page 134 line.
C7_Example ==
    (Patched /\ written /\ UidField = SampleUidLine) =>
        /\ lines[FirstWith(lines, Page133Mark)] =
              <<"P","a","g","e"," ","1","3","3",":"," ","E","8"," ","E","A"," ","4","7"," ","5","7","\n">>
        /\ lines[FirstWith(lines, Page134Mark)] = PackLine
        /\ new_file = writelines(lines)

C7_Witness ==
    /\ Patched
    /\ written
    /\ UidField = SampleUidLine
    /\ new_file # nfc_file

\* C8 (as claimed): a completed patch keeps the number of lines and every
\* line, except the first line containing "Page 133:" and the first line
\* containing "Page 134:".
C8_FrameFirst ==
    (Patched /\ written) =>
        LET il == InputLines
            p133 == FirstWith(il, Page133Mark)
            p134 == FirstWith(il, Page134Mark)
        IN  /\ Len(lines) = Len(il)
            /\ \A k \in 1..Len(il) : (k # p133 /\ k # p134) => lines[k] = il[k]

\* C8 (amended): a completed patch keeps the number of lines and every line,
\* except two positions: the first line containing "Page 133:" and the first
\* line containing "Page 134:" other than that one.
C8_Frame ==
    (Patched /\ written) =>
        LET il == InputLines
            p133 == FirstWith(il, Page133Mark)
            p134 == FirstWithExcept(il, Page134Mark, p133)
        IN  /\ Len(lines) = Len(il)
            /\ p133 > 0 /\ p134 > 0 /\ p133 # p134
            /\ \A k \in 1..Len(il) : (k # p133 /\ k # p134) => lines[k] = il[k]
            /\ new_file = writelines(lines)

C8_Witness ==
    /\ Patched
    /\ written
    /\ ~from_encode
    /\ Len(lines) = 4
    /\ LET il == InputLines
       IN  /\ Occurs(Page134Mark, il[FirstWith(il, Page133Mark)])
           /\ FirstWith(il, UidMark) = 4

\* C9: when no line contains "UID:", or none "Page 133:", or none "Page 134:",
\* the patch ends with an exception and writes nothing.
C9_MissingField ==
    Patched =>
        LET il == InputLines
        IN  (\/ FirstWith(il, UidMark) = 0
             \/ FirstWith(il, Page133Mark) = 0
             \/ FirstWith(il, Page134Mark) = 0) =>
                /\ raised # ""
                /\ ~written
                /\ new_file = <<>>

C9_Witness ==
    /\ Patched
    /\ raised = "IndexError"
    /\ ~written
    /\ LET il == InputLines
       IN  /\ FirstWith(il, UidMark) > 0
           /\ FirstWith(il, Page133Mark) > 0
           /\ FirstWith(il, Page134Mark) = 0

\* C10 (as claimed): for an image shorter than 8 bytes convert ends in an
\* error and returns no page document.
C10_ShortImage ==
    (Len(contents) < 8 /\ pc \in {"converted", "nfc", "done"}) => ~Converted

====
